---- MODULE Spec2Model ----
(***************************************************************************)
(* The CV-analysis handler of General-CV-Analysis as a state machine.      *)
(*                                                                         *)
(* Three handler variants exist in the repository: src/src/main.js,        *)
(* src/unnamed/part_000 and src/unnamed/part_001.  The variable `variant`  *)
(* says which file's code an invocation runs.  One invocation is one       *)
(* behaviour: Init draws the request, the environment and the variant;     *)
(* each action is the code between two suspension points (awaits), with    *)
(* the outcome of the awaited collaborator call drawn with \E.             *)
(*                                                                         *)
(* JavaScript objects are functions whose DOMAIN is the set of keys that   *)
(* are present; an absent key is `undefined`.                              *)
(***************************************************************************)
EXTENDS Integers, Sequences, FiniteSets, TLC

VARIABLES
    variant,          \* which source file's handler runs
    apiKey,           \* process.env.GEMINI_API_KEY is set
    req,              \* req.body as received
    pc,               \* position of the handler
    talent,           \* let talent
    careerPath,       \* let careerPath = null
    uploadedFileId,   \* let uploadedFileId = null
    blob,             \* files that exist in the blob store
    calls,            \* external calls issued so far, in order
    cvText,           \* trimmed length of the extracted text, -1 before extraction
    modelReply,       \* what the analysis model call returned (parsed), for reference
    aiError,          \* why the AI path failed, "none" while it has not
    analysis,         \* let analysis
    usedFallback,     \* let usedFallback = false
    unexpectedError,  \* what the outer catch caught, "none" if nothing
    responses,        \* envelopes res.json has emitted, in order
    text,             \* the argument of a call of extractAndCleanJSON on its own
    cleaned,          \* what that call returned or threw
    inv               \* the locals of each of several invocations in flight

vars == <<variant, apiKey, req, pc, talent, careerPath, uploadedFileId, blob,
          calls, cvText, modelReply, aiError, analysis, usedFallback, unexpectedError,
          responses, text, cleaned, inv>>

Variants == {"main", "part_000", "part_001"}

-----------------------------------------------------------------------------
(* JavaScript values of the request fields *)

Undefined == [t |-> "undefined"]
Num == [t |-> "number"]                       \* a non-zero number, e.g. 7
Str(s) == [t |-> "string", s |-> s]           \* s: a sequence of characters
Data(len) == [t |-> "string", len |-> len]    \* an encoded string of that length

\* JavaScript truthiness of a request field
Truthy(v) ==
    CASE v.t = "undefined" -> FALSE
      [] v.t = "number" -> TRUE
      [] v.t = "string" -> IF "len" \in DOMAIN v THEN v.len > 0 ELSE Len(v.s) > 0

Null == [isNull |-> TRUE]                     \* null
NoId == "null"                                \* uploadedFileId = null

-----------------------------------------------------------------------------
(* String.prototype.toLowerCase, lastIndexOf, substring on character
   sequences.  Lower-casing follows Unicode: U+0130 (capital I with dot
   above) lower-cases to the two code units "i" U+0307, so the result can be
   longer than the input. *)

LowerOf(c) ==
    CASE c = "P" -> <<"p">>
      [] c = "D" -> <<"d">>
      [] c = "F" -> <<"f">>
      [] c = "C" -> <<"c">>
      [] c = "V" -> <<"v">>
      [] c = "O" -> <<"o">>
      [] c = "X" -> <<"x">>
      [] c = "U+0130" -> <<"i", "U+0307">>
      [] OTHER -> <<c>>

RECURSIVE toLowerCase(_)
toLowerCase(s) ==
    IF s = <<>> THEN <<>> ELSE LowerOf(Head(s)) \o toLowerCase(Tail(s))

\* 0-based index of the last occurrence of c in s, -1 when there is none
lastIndexOf(s, c) ==
    LET hits == {i \in 1..Len(s) : s[i] = c}
    IN IF hits = {} THEN -1 ELSE (CHOOSE i \in hits : \A j \in hits : j <= i) - 1

\* s.substring(start): a negative start counts as 0, one past the end as the end
substring(s, start) ==
    LET from == IF start < 0 THEN 0 ELSE IF start > Len(s) THEN Len(s) ELSE start
    IN SubSeq(s, from + 1, Len(s))

allowedExtensions ==
    { <<".", "p", "d", "f">>, <<".", "j", "p", "g">>, <<".", "j", "p", "e", "g">>,
      <<".", "p", "n", "g">>, <<".", "d", "o", "c">>, <<".", "d", "o", "c", "x">> }

\* const fileExtension = fileName.toLowerCase().substring(fileName.lastIndexOf('.'))
fileExtension(fileName) ==
    substring(toLowerCase(fileName), lastIndexOf(fileName, "."))

maxSizeBytes == 5 * 1024 * 1024

\* fileSizeBytes > maxSizeBytes with fileSizeBytes = (fileData.length * 3) / 4;
\* a non-string has no length: NaN > max is false
tooLarge(fileData) ==
    /\ fileData.t = "string"
    /\ fileData.len * 3 > 4 * maxSizeBytes

-----------------------------------------------------------------------------
(* Documents of the profile store and the career store *)

MaxSkills == 2          \* longest skills / certifications list of a document

Skill(i) == "skill" \o ToString(i)
Cert(i) == "cert" \o ToString(i)

\* the lists a profile can hold: its first n skills
ProfileSkills == {[i \in 1..n |-> Skill(i)] : n \in 0..MaxSkills}
ProfileCerts == {[i \in 1..n |-> Cert(i)] : n \in {0, MaxSkills}}

\* the lists a career path can require: overlap the profile's, and go beyond
RequiredSkills == {<<>>, [i \in 1..MaxSkills |-> Skill(i + 1)]}
RequiredCerts == {[i \in 1..MaxSkills |-> Cert(i + 1)]}

CareerStages == {"Pathfinder", "Trailblazer", "Horizon Changer"}

\* a document of the talents collection; careerStage, skills, certifications
\* and selectedPath are optional keys, given as the function `optional`
Profile(optional) ==
    optional @@ [k \in {"$id", "fullname"} |-> IF k = "$id" THEN "doc1" ELSE "Ada"]

FullSkills == [i \in 1..MaxSkills |-> Skill(i)]

Profiles ==
    \* every stage label, a known one or not
    {Profile([careerStage |-> st, skills |-> FullSkills, certifications |-> <<>>,
              selectedPath |-> "cp1"]) : st \in CareerStages \cup {"Explorer"}}
    \* nothing but the identity, with and without a selected path
    \cup {Profile(<<>>), Profile([selectedPath |-> "cp1"])}
    \* every skills and certifications list
    \cup {Profile([careerStage |-> "Trailblazer", skills |-> sk, certifications |-> ce,
                   selectedPath |-> "cp1"]) : sk \in ProfileSkills, ce \in ProfileCerts}
    \cup {Profile([careerStage |-> "Pathfinder", skills |-> <<Skill(1)>>])}

\* a document of the careerPaths collection; the required lists are optional
Target(optional) ==
    optional @@ [k \in {"$id", "title"} |-> IF k = "$id" THEN "cp1" ELSE "Data Engineer"]

Targets ==
    {Target([requiredSkills |-> sk, requiredCertifications |-> ce]) :
        sk \in RequiredSkills, ce \in RequiredCerts}
    \cup {Target(<<>>)}

\* obj.key of a document, "undefined" in a template string when absent
Field(obj, key) == IF key \in DOMAIN obj THEN obj[key] ELSE "undefined"

-----------------------------------------------------------------------------
(* generateFallbackAnalysis.  The English sentences are shortened; the shape
   of the report, its numbers and every value computed from the profile and
   the career path are the code's. *)

Includes(seq, x) == \E i \in DOMAIN seq : seq[i] = x

\* held?.filter(x => other[okey]?.includes(x)) || []
matching(doc, key, other, okey) ==
    IF key \notin DOMAIN doc THEN <<>>
    ELSE SelectSeq(doc[key], LAMBDA x : okey \in DOMAIN other /\ Includes(other[okey], x))

\* the required list returned whole, whatever the other document holds
missing_Unfiltered(doc, key, other, okey) ==
    IF key \notin DOMAIN doc THEN <<>> ELSE doc[key]

\* required?.filter(x => !other[okey]?.includes(x)) || []
missing(doc, key, other, okey) ==
    IF key \notin DOMAIN doc THEN <<>>
    ELSE SelectSeq(doc[key], LAMBDA x : ~(okey \in DOMAIN other /\ Includes(other[okey], x)))

\* careerPathAlignment when a career path was fetched (the same in all variants
\* but for the two sentences)
alignmentWithPath(talentDoc, path, experience, additional) ==
    [alignmentScore |-> 50,
     matchingSkills |-> matching(talentDoc, "skills", path, "requiredSkills"),
     missingSkills |-> missing(path, "requiredSkills", talentDoc, "skills"),
     matchingCertifications |->
        matching(talentDoc, "certifications", path, "requiredCertifications"),
     missingCertifications |->
        missing(path, "requiredCertifications", talentDoc, "certifications"),
     relevantExperience |-> <<experience>>,
     additionalRequirements |-> <<additional>>]

alignmentWithoutPath ==
    [alignmentScore |-> 0,
     matchingSkills |-> <<>>,
     missingSkills |-> <<>>,
     matchingCertifications |-> <<>>,
     missingCertifications |-> <<>>,
     relevantExperience |-> <<"No career path selected for comparison">>,
     additionalRequirements |-> <<"Select a career path for targeted guidance">>]

unavailableGaps(a, b) ==
    [missingFromCV |-> <<a>>, missingFromProfile |-> <<a>>, inconsistencies |-> <<b>>]

stageSpecificContent(stage) ==
    CASE stage = "Trailblazer" ->
            [strengths |-> <<"Career progression mindset", "Ready for mid-level challenges",
                             "Good foundation for specialization">>,
             recommendations |-> <<"Focus on advanced skills", "Seek leadership",
                                   "Consider advanced certifications">>,
             alignmentScore |-> 60]
      [] stage = "Horizon Changer" ->
            [strengths |-> <<"Valuable experience from previous career",
                             "Mature approach to career transition", "Transferable skills">>,
             recommendations |-> <<"Highlight transferable skills", "Identify skill gaps",
                                   "Consider bridge training">>,
             alignmentScore |-> 55]
      \* 'Pathfinder', and the default of stageSpecificContent[...] || ...['Pathfinder']
      [] OTHER ->
            [strengths |-> <<"Clear career direction as a Pathfinder",
                             "Appropriate stage for skill development",
                             "Good foundation for entry-level positions">>,
             recommendations |-> <<"Focus on building foundational skills",
                                   "Seek internships", "Consider online courses">>,
             alignmentScore |-> 70]

\* src/src/main.js
fallbackMain(talentDoc, path) ==
    LET stage == Field(talentDoc, "careerStage")
        stageContent == stageSpecificContent(stage)
    IN [overallScore |-> 65,
        careerStageAlignment |->
            [alignmentScore |-> stageContent.alignmentScore,
             isAppropriateForStage |-> TRUE,
             experienceLevel |-> "Analysis limited - declared as " \o stage,
             stageJustification |-> "Could not perform detailed experience validation",
             recommendations |-> <<"Complete CV analysis needed", "Ensure CV shows level">>,
             redFlags |-> <<"Unable to verify experience level">>],
        strengths |-> stageContent.strengths,
        weaknesses |-> <<"Unable to fully analyze CV content", "Limited visibility",
                         "Cannot verify consistency">>,
        profileVsCvGaps |-> unavailableGaps("Analysis temporarily unavailable",
                                            "Could not perform detailed comparison"),
        careerPathAlignment |->
            IF path # Null
            THEN alignmentWithPath(talentDoc, path,
                    "Analysis based on profile information only",
                    "Complete detailed CV analysis for comprehensive insights")
            ELSE alignmentWithoutPath,
        recommendations |-> stageContent.recommendations
            \o <<"Ensure CV is in a clear, readable format", "Update your profile",
                 "Try re-uploading your CV">>,
        nextSteps |-> <<"Re-attempt CV upload", "Complete all sections",
                        "Review and update your skills",
                        IF path # Null
                        THEN "Focus development on " \o path.title \o " requirements"
                        ELSE "Consider career path selection">>,
        marketability |->
            [score |-> 55,
             summary |-> "Basic assessment for " \o stage \o " stage",
             competitiveAdvantages |-> <<"Professional profile information available",
                                         "Clear " \o stage \o " career stage identification",
                                         "Structured approach to career development">>,
             improvementAreas |-> <<"Need comprehensive CV analysis",
                                    "Profile optimization required",
                                    "Detailed skill verification needed">>]]

\* src/unnamed/part_000
fallbackPart000(talentDoc, path) ==
    LET stage == Field(talentDoc, "careerStage")
    IN [overallScore |-> 65,
        strengths |-> <<"Profile shows clear career direction and purpose",
                        "Appropriate skill set for " \o stage \o " career stage",
                        "Demonstrates commitment to professional development">>,
        weaknesses |-> <<"Unable to fully analyze CV content", "Limited visibility",
                         "Cannot verify consistency">>,
        profileVsCvGaps |-> unavailableGaps("Analysis temporarily unavailable",
                                            "Could not perform detailed comparison"),
        careerPathAlignment |->
            IF path # Null
            THEN alignmentWithPath(talentDoc, path,
                    "Analysis based on profile information only",
                    "Complete detailed CV analysis for comprehensive insights")
            ELSE alignmentWithoutPath,
        recommendations |-> <<"Ensure CV is in a clear, readable format",
                              "Update your profile",
                              IF path # Null
                              THEN "Focus on developing required skills for " \o path.title
                              ELSE "Consider selecting a career path",
                              "Try re-uploading your CV">>,
        nextSteps |-> <<"Re-attempt CV upload", "Complete all sections",
                        "Review and update your skills", "Consider career path selection">>,
        marketability |->
            [score |-> 55,
             summary |-> "Basic assessment available",
             competitiveAdvantages |-> <<"Professional profile information available",
                                         "Clear career stage identification">>,
             improvementAreas |-> <<"Need comprehensive CV analysis",
                                    "Profile optimization required",
                                    "Detailed skill verification needed">>]]

\* src/unnamed/part_001
fallbackPart001(talentDoc, path) ==
    LET stage == Field(talentDoc, "careerStage")
    IN [overallScore |-> 65,
        strengths |-> <<"Profile shows clear career direction",
                        "Strong foundation for " \o stage \o " level",
                        "Diverse interests and background">>,
        weaknesses |-> <<"Unable to fully analyze CV content", "Limited visibility",
                         "Cannot verify skill claims">>,
        profileVsCvGaps |-> unavailableGaps("Analysis unavailable",
                                            "Could not perform comparison"),
        careerPathAlignment |->
            IF path # Null
            THEN alignmentWithPath(talentDoc, path, "Based on profile information only",
                                   "Complete CV analysis for detailed insights")
            ELSE [alignmentScore |-> 0,
                  message |-> "No career path selected for comparison"],
        recommendations |-> <<"Ensure CV is readable", "Update your profile",
                              IF path # Null
                              THEN "Focus on developing skills for " \o path.title
                              ELSE "Select a career path for targeted advice">>,
        nextSteps |-> <<"Try uploading CV again", "Complete your profile information",
                        "Consider selecting a career path for guidance">>,
        marketability |->
            [score |-> 55,
             summary |-> "Basic analysis available",
             competitiveAdvantages |-> <<"Profile information available">>,
             improvementAreas |-> <<"Need complete CV analysis", "Profile optimization">>]]

generateFallbackAnalysis(v, talentDoc, path) ==
    CASE v = "main" -> fallbackMain(talentDoc, path)
      [] v = "part_000" -> fallbackPart000(talentDoc, path)
      [] v = "part_001" -> fallbackPart001(talentDoc, path)

-----------------------------------------------------------------------------
(* extractAndCleanJSON on character sequences.  Each String.prototype.replace
   with a global regular expression is a left-to-right scan: at each position
   the pattern either matches, and the scan goes on after the match, or the
   character is copied and the scan goes on at the next one. *)

\* \s, for the characters the texts are made of
isSpace(c) == c \in {" ", "\n"}

\* \w, for the characters the texts are made of
isWord(c) == c \in {"a", "b", "j", "s", "o", "n", "x", "1", "_"}

\* s after a leading \s*
RECURSIVE skipSpaces(_)
skipSpaces(s) ==
    IF s # <<>> /\ isSpace(Head(s)) THEN skipSpaces(Tail(s)) ELSE s

\* the leading \s* of s
leadingSpaces(s) == SubSeq(s, 1, Len(s) - Len(skipSpaces(s)))

\* s after a leading \w*
RECURSIVE skipWord(_)
skipWord(s) ==
    IF s # <<>> /\ isWord(Head(s)) THEN skipWord(Tail(s)) ELSE s

startsWith(s, prefix) ==
    Len(s) >= Len(prefix) /\ SubSeq(s, 1, Len(prefix)) = prefix

RECURSIVE trimEnd(_)
trimEnd(s) ==
    IF s # <<>> /\ isSpace(s[Len(s)]) THEN trimEnd(SubSeq(s, 1, Len(s) - 1)) ELSE s

\* String.prototype.trim
trim(s) == trimEnd(skipSpaces(s))

\* 0-based index of the first occurrence of c in s, -1 when there is none
indexOf(s, c) ==
    LET hits == {i \in 1..Len(s) : s[i] = c}
    IN IF hits = {} THEN -1 ELSE (CHOOSE i \in hits : \A j \in hits : i <= j) - 1

\* no extraction: the whole text is kept
slice_Whole(s, start, end) == s

\* s.substring(start, end) for 0 <= start <= end <= s.length
slice(s, start, end) == SubSeq(s, start + 1, end)

\* the code-fence marker: three grave accents (U+0060)
fence == <<"U+0060", "U+0060", "U+0060">>
fenceJson == fence \o <<"j", "s", "o", "n">>

\* .replace(/<fence>json\s*/g, '') with marker fenceJson, and
\* .replace(/<fence>\s*/g, '') with marker fence
RECURSIVE removeFence(_, _)
removeFence(s, marker) ==
    IF s = <<>> THEN <<>>
    ELSE IF startsWith(s, marker)
    THEN removeFence(skipSpaces(SubSeq(s, Len(marker) + 1, Len(s))), marker)
    ELSE <<Head(s)>> \o removeFence(Tail(s), marker)

\* .replace(/,(\s*[}\]])/g, '$1')
RECURSIVE removeTrailingCommas(_)
removeTrailingCommas(s) ==
    IF s = <<>> THEN <<>>
    ELSE LET rest == skipSpaces(Tail(s))
         IN IF Head(s) = "," /\ rest # <<>> /\ Head(rest) \in {"}", "]"}
            THEN leadingSpaces(Tail(s)) \o <<Head(rest)>> \o removeTrailingCommas(Tail(rest))
            ELSE <<Head(s)>> \o removeTrailingCommas(Tail(s))

\* .replace(/([{,]\s*)(\w+):/g, '$1"$2":')
RECURSIVE quoteKeys(_)
quoteKeys(s) ==
    IF s = <<>> THEN <<>>
    ELSE LET rest == skipSpaces(Tail(s))
             after == skipWord(rest)
             word == SubSeq(rest, 1, Len(rest) - Len(after))
         IN IF Head(s) \in {"{", ","} /\ word # <<>> /\ after # <<>> /\ Head(after) = ":"
            THEN <<Head(s)>> \o leadingSpaces(Tail(s)) \o <<"\"">> \o word \o <<"\"", ":">>
                    \o quoteKeys(Tail(after))
            ELSE <<Head(s)>> \o quoteKeys(Tail(s))

\* .replace(/:\s*'([^']*)'/g, ': "$1"')
RECURSIVE singleToDoubleQuotes(_)
singleToDoubleQuotes(s) ==
    IF s = <<>> THEN <<>>
    ELSE LET rest == skipSpaces(Tail(s))
             body == IF rest = <<>> THEN <<>> ELSE Tail(rest)
             close == indexOf(body, "'")
         IN IF Head(s) = ":" /\ rest # <<>> /\ Head(rest) = "'" /\ close # -1
            THEN <<":", " ", "\"">> \o slice(body, 0, close) \o <<"\"">>
                    \o singleToDoubleQuotes(SubSeq(body, close + 2, Len(body)))
            ELSE <<Head(s)>> \o singleToDoubleQuotes(Tail(s))

\* .replace(/\n/g, ' ')
newlinesToSpaces(s) == [i \in 1..Len(s) |-> IF s[i] = "\n" THEN " " ELSE s[i]]

\* .replace(/\s+/g, ' ')
RECURSIVE collapseSpaces(_)
collapseSpaces(s) ==
    IF s = <<>> THEN <<>>
    ELSE IF isSpace(Head(s)) THEN <<" ">> \o collapseSpaces(skipSpaces(s))
    ELSE <<Head(s)>> \o collapseSpaces(Tail(s))

\* the chain of replacements applied to the extracted portion, and the trim
repairs(s) ==
    trim(collapseSpaces(newlinesToSpaces(singleToDoubleQuotes(quoteKeys(
        removeTrailingCommas(s))))))

\* an exception: its constructor name and its message
Exception(name, message) == [name |-> name, message |-> message]

\* extractAndCleanJSON has not been called
NotCalled == [called |-> FALSE]

returned(value) == [called |-> TRUE, ok |-> TRUE, value |-> value]

\* an exception that leaves extractAndCleanJSON as it was thrown
cleanFailure_Unwrapped(e) == [called |-> TRUE, ok |-> FALSE, error |-> e]

\* catch (error) { throw new Error("Failed to clean JSON: " + error.message) }
cleanFailure(e) ==
    [called |-> TRUE, ok |-> FALSE,
     error |-> Exception("Error", "Failed to clean JSON: " \o e.message)]

extractAndCleanJSON(raw) ==
    IF raw.t # "string"
    THEN \* text.replace is not a function, or text is undefined
         cleanFailure(Exception("TypeError", "text.replace is not a function"))
    ELSE LET stripped == trim(removeFence(removeFence(raw.s, fenceJson), fence))
             startIndex == indexOf(stripped, "{")
             lastIndex == lastIndexOf(stripped, "}")
         IN IF startIndex = -1 \/ lastIndex = -1 \/ startIndex >= lastIndex
            THEN cleanFailure(Exception("Error", "No valid JSON object found in response"))
            ELSE returned(repairs(slice(stripped, startIndex, lastIndex + 1)))

-----------------------------------------------------------------------------
(* JSON.parse on character sequences, for objects, arrays, strings without
   escapes and unsigned integers.  The value parsed is given as the sequence
   of its tokens, insignificant whitespace dropped: two texts parse to the
   same value when they give the same tokens.  A step of the parser returns
   [ok, value, rest]: the tokens read and the characters left. *)

isDigit(c) == c \in {"0", "1", "2"}

token(kind, chars) == [k |-> kind, v |-> chars]

syntaxError == [ok |-> FALSE, value |-> <<>>, rest |-> <<>>]

parsedTo(value, rest) == [ok |-> TRUE, value |-> value, rest |-> rest]

RECURSIVE skipDigits(_)
skipDigits(s) ==
    IF s # <<>> /\ isDigit(Head(s)) THEN skipDigits(Tail(s)) ELSE s

\* after the opening quote: up to the closing quote, no raw line break inside
parseString(s) ==
    LET close == indexOf(s, "\"")
        content == slice(s, 0, close)
    IN IF close = -1 \/ (\E i \in 1..Len(content) : content[i] = "\n")
       THEN syntaxError
       ELSE parsedTo(<<token("string", content)>>, SubSeq(s, close + 2, Len(s)))

RECURSIVE parseValue(_)
RECURSIVE parseMembers(_)
RECURSIVE parseElements(_)

\* "key" : value, then ',' and more members or '}'
parseMembers(s) ==
    LET t == skipSpaces(s)
        key == IF t # <<>> /\ Head(t) = "\"" THEN parseString(Tail(t)) ELSE syntaxError
        colon == skipSpaces(key.rest)
        val == IF key.ok /\ colon # <<>> /\ Head(colon) = ":"
               THEN parseValue(Tail(colon)) ELSE syntaxError
        next == skipSpaces(val.rest)
        more == parseMembers(Tail(next))
    IN IF ~val.ok \/ next = <<>> THEN syntaxError
       ELSE IF Head(next) = "}"
       THEN parsedTo(key.value \o val.value \o <<token("}", <<>>)>>, Tail(next))
       ELSE IF Head(next) = "," /\ more.ok
       THEN parsedTo(key.value \o val.value \o more.value, more.rest)
       ELSE syntaxError

\* value, then ',' and more elements or ']'
parseElements(s) ==
    LET val == parseValue(s)
        next == skipSpaces(val.rest)
        more == parseElements(Tail(next))
    IN IF ~val.ok \/ next = <<>> THEN syntaxError
       ELSE IF Head(next) = "]"
       THEN parsedTo(val.value \o <<token("]", <<>>)>>, Tail(next))
       ELSE IF Head(next) = "," /\ more.ok
       THEN parsedTo(val.value \o more.value, more.rest)
       ELSE syntaxError

parseValue(s) ==
    LET t == skipSpaces(s)
        inner == skipSpaces(Tail(t))
        members == parseMembers(inner)
        elements == parseElements(inner)
        digits == SubSeq(t, 1, Len(t) - Len(skipDigits(t)))
    IN IF t = <<>> THEN syntaxError
       ELSE CASE Head(t) = "{" ->
                    IF inner # <<>> /\ Head(inner) = "}"
                    THEN parsedTo(<<token("{", <<>>), token("}", <<>>)>>, Tail(inner))
                    ELSE IF members.ok
                    THEN parsedTo(<<token("{", <<>>)>> \o members.value, members.rest)
                    ELSE syntaxError
              [] Head(t) = "[" ->
                    IF inner # <<>> /\ Head(inner) = "]"
                    THEN parsedTo(<<token("[", <<>>), token("]", <<>>)>>, Tail(inner))
                    ELSE IF elements.ok
                    THEN parsedTo(<<token("[", <<>>)>> \o elements.value, elements.rest)
                    ELSE syntaxError
              [] Head(t) = "\"" -> parseString(Tail(t))
              [] isDigit(Head(t)) -> parsedTo(<<token("number", digits)>>, skipDigits(t))
              [] OTHER -> syntaxError

\* JSON.parse(s): [ok, value]; nothing but whitespace may follow the value
JSONparse(s) ==
    LET r == parseValue(s)
    IN IF r.ok /\ skipSpaces(r.rest) = <<>>
       THEN [ok |-> TRUE, value |-> r.value]
       ELSE [ok |-> FALSE, value |-> <<>>]

\* JSON.parse(extractAndCleanJSON(responseText)): [ok, value]
sanitizeAndParse(raw) ==
    LET c == extractAndCleanJSON(raw)
    IN IF c.ok THEN JSONparse(c.value) ELSE [ok |-> FALSE, value |-> <<>>]

-----------------------------------------------------------------------------
(* What the analysis model call can return, once sanitized and parsed.  The
   model is an untrusted collaborator: any key may be absent and any score
   may be out of range. *)

ScoreVals == {-20, 0, 50, 100, 150}

completeReply(overall, stage, path, market) ==
    [overallScore |-> overall,
     careerStageAlignment |-> [alignmentScore |-> stage, isAppropriateForStage |-> TRUE],
     strengths |-> <<"Strong technical foundation">>,
     weaknesses |-> <<"Missing key industry certifications">>,
     profileVsCvGaps |-> unavailableGaps("JavaScript", "Experience level differs"),
     careerPathAlignment |->
        [alignmentScore |-> path,
         matchingSkills |-> <<"React">>,
         missingSkills |-> <<"Docker">>,
         matchingCertifications |-> <<>>,
         missingCertifications |-> <<"AWS Solutions Architect">>,
         relevantExperience |-> <<"2+ years in full-stack development">>,
         additionalRequirements |-> <<"Need more backend experience">>],
     recommendations |-> <<"Update your profile">>,
     nextSteps |-> <<"Pursue missing certifications">>,
     marketability |-> [score |-> market, summary |-> "Strong technical foundation"]]

\* obj without key k
without(obj, k) == [x \in DOMAIN obj \ {k} |-> obj[x]]

TopLevelFields ==
    {"overallScore", "careerStageAlignment", "strengths", "weaknesses", "profileVsCvGaps",
     "careerPathAlignment", "recommendations", "nextSteps", "marketability"}

ModelReplies ==
    \* every field present, scores in and out of range
    {completeReply(o, 90, 75, 78) : o \in ScoreVals}
    \cup {completeReply(85, 150, 75, 78)}
    \cup {completeReply(85, 90, c, 78) : c \in {-20, 150}}
    \cup {completeReply(85, 90, 75, m) : m \in {-20, 150}}
    \cup {completeReply(0, 90, 75, 150)}
    \* one top-level field absent
    \cup {without(completeReply(85, 90, 75, 78), k) : k \in TopLevelFields}
    \* a score absent from its section
    \cup {[completeReply(85, 90, 75, 78) EXCEPT !.marketability = without(@, "score")],
          [completeReply(85, 90, 75, 78) EXCEPT
              !.careerPathAlignment = without(@, "alignmentScore")]}
    \* an empty list
    \cup {[completeReply(85, 90, 75, 78) EXCEPT !.strengths = <<>>]}
    \* a reply that happens to carry the key part_001 asks for
    \cup {("profileVsCvGPs" :> <<>>) @@ completeReply(o, 90, 75, 78) : o \in {85, 150}}

-----------------------------------------------------------------------------
(* analyzeCVContent after the model call: required fields, then score ranges *)

\* !analysis[field] is false: the key is present and its value is truthy (a
\* number is truthy unless it is 0; lists and objects always are)
present(a, field) ==
    /\ field \in DOMAIN a
    /\ (field = "overallScore" => a[field] # 0)

requiredFields(v) ==
    CASE v = "main" ->
            {"overallScore", "careerStageAlignment", "strengths", "weaknesses",
             "profileVsCvGaps", "recommendations", "nextSteps", "marketability"}
      [] v = "part_000" ->
            {"overallScore", "strengths", "weaknesses", "profileVsCvGaps",
             "recommendations", "nextSteps", "marketability"}
      [] v = "part_001" ->
            {"overallScore", "strengths", "weaknesses", "profileVsCvGPs", "recommendations"}

Min(a, b) == IF a < b THEN a ELSE b
Max(a, b) == IF a > b THEN a ELSE b

\* Math.max(min, Math.min(max, x)) with min 0 and max 100
clamp(x) == Max(0, Min(100, x))

\* src/src/main.js: scoreFields.forEach for a one-key path
clampTop(a, key) ==
    IF key \in DOMAIN a THEN [a EXCEPT ![key] = clamp(@)] ELSE a

\* src/src/main.js: scoreFields.forEach for a two-key path; a missing parent is
\* created as {}
clampNested(a, parent, key) ==
    LET a1 == IF parent \in DOMAIN a THEN a ELSE (parent :> <<>>) @@ a
    IN IF key \in DOMAIN a1[parent]
       THEN [a1 EXCEPT ![parent] = [@ EXCEPT ![key] = clamp(@)]]
       ELSE a1

correctScoresMain(a) ==
    clampNested(
        clampNested(
            clampNested(clampTop(a, "overallScore"), "careerStageAlignment", "alignmentScore"),
            "careerPathAlignment", "alignmentScore"),
        "marketability", "score")

\* src/unnamed/part_000: a score is touched only when it is out of range, and a
\* section only when it is there
outOfRange(x) == x < 0 \/ x > 100

correctNestedPart000(a, parent, key, default) ==
    IF parent \in DOMAIN a /\ key \in DOMAIN a[parent] /\ outOfRange(a[parent][key])
    THEN [a EXCEPT ![parent] =
            [@ EXCEPT ![key] = clamp(IF @ = 0 THEN default ELSE @)]]
    ELSE a

correctScoresPart000(a) ==
    LET a1 == IF outOfRange(a.overallScore) THEN [a EXCEPT !.overallScore = clamp(@)] ELSE a
        a2 == correctNestedPart000(a1, "marketability", "score", 50)
    IN \* analysis.careerPathAlignment.alignmentScore has no `|| default`
       IF "careerPathAlignment" \in DOMAIN a2
          /\ "alignmentScore" \in DOMAIN a2.careerPathAlignment
          /\ outOfRange(a2.careerPathAlignment.alignmentScore)
       THEN [a2 EXCEPT !.careerPathAlignment = [@ EXCEPT !.alignmentScore = clamp(@)]]
       ELSE a2

\* src/unnamed/part_001 returns the parsed reply as it is
correctScores(v, a) ==
    CASE v = "main" -> correctScoresMain(a)
      [] v = "part_000" -> correctScoresPart000(a)
      [] v = "part_001" -> a

\* the part of analyzeCVContent that follows JSON.parse: [ok, analysis]
validateAnalysis(v, reply) ==
    IF \A f \in requiredFields(v) : present(reply, f)
    THEN [ok |-> TRUE, analysis |-> correctScores(v, reply)]
    ELSE [ok |-> FALSE, analysis |-> Null]

-----------------------------------------------------------------------------
(* Requests *)

\* the longest encoded string the size check lets through
LargestAccepted == (4 * maxSizeBytes) \div 3

TalentIds == {Undefined, Str(<<>>), Str(<<"t1">>)}

FileDatas ==
    {Undefined, Num, Data(0), Data(4), Data(LargestAccepted), Data(LargestAccepted + 1)}

FileNames ==
    {Undefined, Num, Str(<<>>),
     Str(<<"c", "v", ".", "p", "d", "f">>),
     Str(<<"C", "V", ".", "P", "D", "F">>),
     Str(<<"c", "v", ".", "D", "o", "c", "X">>),
     Str(<<"c", "v", ".", "e", "x", "e">>),
     Str(<<"c", "v", "p", "d", "f">>),
     Str(<<"c", "v", ".", "p", "d", "f", ".", "e", "x", "e">>),
     Str(<<"U+0130", ".", "p", "d", "f">>)}

BaseName == Str(<<"c", "v", ".", "p", "d", "f">>)

object(t, d, n) == [kind |-> "object", talentId |-> t, fileData |-> d, fileName |-> n]

\* req.body: no body, text that is not JSON, the JSON text null, the JSON text
\* of a number, or the JSON text of an object.  The objects vary one field of
\* a valid request at a time, and a few pairs of fields.
Requests ==
    {[kind |-> k] : k \in {"undefined", "invalid", "null", "scalar"}}
    \cup {object(t, Data(4), BaseName) : t \in TalentIds}
    \cup {object(Str(<<"t1">>), d, BaseName) : d \in FileDatas}
    \cup {object(Str(<<"t1">>), Data(4), n) : n \in FileNames}
    \cup {object(Str(<<"t1">>), Data(LargestAccepted + 1), n) : n \in FileNames}
    \cup {object(Str(<<"t1">>), Num, Num), object(Undefined, Undefined, Undefined)}

\* const { talentId, fileData, fileName } = requestData, for an object or a number
field(r, k) == IF r.kind = "object" THEN r[k] ELSE Undefined

MinTextLength == 50

\* trimmed lengths of the text the extraction model call can return
TextLengths == {0, MinTextLength - 1, MinTextLength, MinTextLength + 1}

FileIds == {"file1"}

-----------------------------------------------------------------------------
(* Response envelopes: res.json(body, status) *)

failure(status, message) ==
    [status |-> status,
     body |-> [success |-> FALSE, error |-> message, statusCode |-> status]]

\* a 500 envelope that leaks the report built before the exception
internalError_WithAnalysis ==
    [status |-> 500,
     body |-> [success |-> FALSE, error |-> "Internal server error",
               statusCode |-> 500, executionTime |-> "ms", analysis |-> analysis]]

internalError ==
    [status |-> 500,
     body |-> [success |-> FALSE, error |-> "Internal server error",
               statusCode |-> 500, executionTime |-> "ms"]]

successResponse ==
    [status |-> 200,
     body |-> [success |-> TRUE,
               statusCode |-> 200,
               analysis |-> analysis,
               metadata |->
                  [talent |-> [id |-> talent["$id"], fullname |-> talent.fullname,
                               careerStage |-> Field(talent, "careerStage")],
                   careerPath |-> IF careerPath # Null
                                  THEN [id |-> careerPath["$id"], title |-> careerPath.title]
                                  ELSE Null,
                   fileName |-> field(req, "fileName"),
                   analyzedAt |-> "now",
                   executionTime |-> "ms",
                   usedFallback |-> usedFallback]]]

call(op, ok) == [op |-> op, ok |-> ok]

-----------------------------------------------------------------------------
(* The synchronous checks before the first external call: what they decide.
   [next |-> "reply", response] ends the invocation with that envelope,
   [next |-> "throw"] is a TypeError that reaches the outer catch,
   [next |-> "pass"] goes on to the profile fetch. *)

reply(status, message) == [next |-> "reply", response |-> failure(status, message)]

\* from `const { talentId, fileData, fileName } = requestData` on
checkFields(v, r) ==
    LET fileName == field(r, "fileName")
        fileData == field(r, "fileData")
    IN CASE ~(Truthy(field(r, "talentId")) /\ Truthy(fileData) /\ Truthy(fileName)) ->
                reply(400, "Missing required parameters")
         \* fileName.toLowerCase is not a function
         [] OTHER ->
            IF fileName.t # "string" THEN [next |-> "throw"]
            ELSE IF fileExtension(fileName.s) \notin allowedExtensions
            THEN reply(400, "Unsupported file type")
            ELSE IF v # "part_001" /\ tooLarge(fileData)
            THEN reply(400, "File size too large")
            ELSE [next |-> "pass"]

preflight(v, key, r) ==
    IF v # "part_001" /\ ~key
    THEN reply(500, "Server configuration error")
    ELSE CASE r.kind = "invalid" -> reply(400, "Invalid JSON input")
           \* JSON.parse(undefined) throws; main.js does not parse a non-string
           [] r.kind = "undefined" ->
                IF v = "part_001" THEN reply(400, "Invalid JSON input")
                ELSE [next |-> "throw"]
           \* destructuring null throws
           [] r.kind = "null" -> [next |-> "throw"]
           [] OTHER -> checkFields(v, r)

-----------------------------------------------------------------------------
(* extractTextFromCV: the media type sent with the file.  A media type is
   [type, subtype], the subtype a sequence of characters or of words. *)

\* s.split('.').pop(): what follows the last '.', the whole of s without one
lastSegment(s) == substring(s, lastIndexOf(s, ".") + 1)

endsWith(s, suffix) ==
    Len(s) >= Len(suffix) /\ SubSeq(s, Len(s) - Len(suffix) + 1, Len(s)) = suffix

media(type, subtype) == [type |-> type, subtype |-> subtype]

octetStream == media("application", <<"octet-stream">>)

\* src/src/main.js and part_000: switch (fileName.toLowerCase().split('.').pop())
mimeTypeMain(fileName) ==
    LET extension == lastSegment(toLowerCase(fileName))
    IN CASE extension = <<"p", "d", "f">> -> media("application", <<"pdf">>)
         [] extension \in {<<"j", "p", "g">>, <<"j", "p", "e", "g">>} ->
                media("image", <<"jpeg">>)
         [] extension = <<"p", "n", "g">> -> media("image", <<"png">>)
         [] extension = <<"d", "o", "c">> -> media("application", <<"msword">>)
         [] extension = <<"d", "o", "c", "x">> ->
                media("application",
                      <<"vnd.openxmlformats-officedocument.wordprocessingml.document">>)
         [] OTHER -> octetStream

\* src/unnamed/part_001: .pdf, else /\.(jpg|jpeg|png)$/ with the subtype taken
\* from the file name as it was given, else the generic type
mimeTypePart001(fileName) ==
    LET lower == toLowerCase(fileName)
    IN IF endsWith(lower, <<".", "p", "d", "f">>) THEN media("application", <<"pdf">>)
       ELSE IF \E e \in {<<".", "j", "p", "g">>, <<".", "j", "p", "e", "g">>,
                         <<".", "p", "n", "g">>} : endsWith(lower, e)
       THEN media("image", lastSegment(fileName))
       ELSE octetStream

mimeType(v, fileName) ==
    IF v = "part_001" THEN mimeTypePart001(fileName) ELSE mimeTypeMain(fileName)

\* model.generateContent([prompt, {inlineData: {data, mimeType}}])
extractionCall(ok) ==
    [op |-> "generateContent(file)", ok |-> ok,
     mimeType |-> mimeType(variant, req.fileName.s)]

\* analyzeCVContent(cvText, talent, careerPath): model.generateContent(prompt),
\* the prompt embedding cvText
analysisCall(ok) ==
    [op |-> "generateContent(text)", ok |-> ok, cvText |-> cvText]

-----------------------------------------------------------------------------
(* The handler *)

Init ==
    /\ variant \in Variants
    /\ apiKey \in BOOLEAN
    /\ req \in Requests
    /\ pc = "start"
    /\ talent = Null
    /\ careerPath = Null
    /\ uploadedFileId = NoId
    /\ blob = {}
    /\ calls = <<>>
    /\ cvText = -1
    /\ modelReply = Null
    /\ aiError = "none"
    /\ analysis = Null
    /\ usedFallback = FALSE
    /\ unexpectedError = "none"
    /\ responses = <<>>
    /\ text = Undefined
    /\ cleaned = NotCalled
    /\ inv = <<>>

\* environment check, body parsing, required parameters, file type, file size
Validate ==
    /\ pc = "start"
    /\ LET r == preflight(variant, apiKey, req)
       IN CASE r.next = "reply" ->
                    /\ responses' = Append(responses, r.response)
                    /\ pc' = "done"
                    /\ UNCHANGED unexpectedError
            [] r.next = "throw" ->
                    /\ pc' = "outerCatch"
                    /\ unexpectedError' = "TypeError"
                    /\ UNCHANGED responses
            [] r.next = "pass" ->
                    /\ pc' = "fetchTalent"
                    /\ UNCHANGED <<responses, unexpectedError>>
    /\ UNCHANGED <<text, cleaned, inv>>
    /\ UNCHANGED <<variant, apiKey, req, talent, careerPath, uploadedFileId, blob, calls,
                   cvText, modelReply, aiError, analysis, usedFallback>>

\* the 404 and the 500 of the profile fetch exchanged
FetchTalent_CodesSwapped ==
    /\ pc = "fetchTalent"
    /\ \/ /\ calls' = Append(calls, call("listDocuments", FALSE))
          /\ responses' = Append(responses, failure(404, "Talent profile not found"))
          /\ pc' = "done"
          /\ UNCHANGED talent
       \/ /\ calls' = Append(calls, call("listDocuments", TRUE))
          /\ responses' = Append(responses, failure(500, "Failed to fetch talent information"))
          /\ pc' = "done"
          /\ UNCHANGED talent
       \/ \E p \in Profiles :
            /\ calls' = Append(calls, call("listDocuments", TRUE))
            /\ talent' = p
            /\ pc' = IF "selectedPath" \in DOMAIN p THEN "fetchCareer" ELSE "stage"
            /\ UNCHANGED responses
    /\ UNCHANGED <<text, cleaned, inv>>
    /\ UNCHANGED <<variant, apiKey, req, careerPath, uploadedFileId, blob, cvText,
                   modelReply, aiError, analysis, usedFallback, unexpectedError>>

\* databases.listDocuments(talents, talentId): throws, finds nothing, or finds
\* the profile; then `if (talent.selectedPath)`
FetchTalent ==
    /\ pc = "fetchTalent"
    /\ \/ /\ calls' = Append(calls, call("listDocuments", FALSE))
          /\ responses' = Append(responses, failure(500, "Failed to fetch talent information"))
          /\ pc' = "done"
          /\ UNCHANGED talent
       \/ /\ calls' = Append(calls, call("listDocuments", TRUE))
          /\ responses' = Append(responses, failure(404, "Talent profile not found"))
          /\ pc' = "done"
          /\ UNCHANGED talent
       \/ \E p \in Profiles :
            /\ calls' = Append(calls, call("listDocuments", TRUE))
            /\ talent' = p
            /\ pc' = IF "selectedPath" \in DOMAIN p THEN "fetchCareer" ELSE "stage"
            /\ UNCHANGED responses
    /\ UNCHANGED <<text, cleaned, inv>>
    /\ UNCHANGED <<variant, apiKey, req, careerPath, uploadedFileId, blob, cvText,
                   modelReply, aiError, analysis, usedFallback,
                   unexpectedError>>

\* a failed career fetch that ends the invocation with a 500
FetchCareer_Fatal ==
    /\ pc = "fetchCareer"
    /\ \/ /\ calls' = Append(calls, call("getDocument", FALSE))
          /\ responses' = Append(responses, failure(500, "Failed to fetch career path"))
          /\ pc' = "done"
          /\ UNCHANGED careerPath
       \/ \E t \in Targets :
            /\ calls' = Append(calls, call("getDocument", TRUE))
            /\ careerPath' = t
            /\ pc' = "stage"
            /\ UNCHANGED responses
    /\ UNCHANGED <<text, cleaned, inv>>
    /\ UNCHANGED <<variant, apiKey, req, talent, uploadedFileId, blob, cvText, modelReply,
                   aiError, analysis, usedFallback, unexpectedError>>

\* databases.getDocument(careerPaths, talent.selectedPath): a failure is logged
\* and careerPath stays null
FetchCareer ==
    /\ pc = "fetchCareer"
    /\ \/ /\ calls' = Append(calls, call("getDocument", FALSE))
          /\ UNCHANGED careerPath
       \/ \E t \in Targets :
            /\ calls' = Append(calls, call("getDocument", TRUE))
            /\ careerPath' = t
    /\ pc' = "stage"
    /\ UNCHANGED <<text, cleaned, inv>>
    /\ UNCHANGED <<variant, apiKey, req, talent, uploadedFileId, blob, cvText, modelReply,
                   aiError, analysis, usedFallback, responses,
                   unexpectedError>>

\* Buffer.from(fileData, 'base64') and storage.createFile.  main.js and part_000
\* catch a failed upload and go on with the buffer; part_001 has no inner try, a
\* failed upload is an AI-path failure
Stage ==
    /\ pc = "stage"
    /\ IF field(req, "fileData").t # "string"
       THEN \* Buffer.from throws on a number
            /\ aiError' = "buffer"
            /\ pc' = "catch"
            /\ UNCHANGED <<uploadedFileId, blob, calls>>
       ELSE \/ \E id \in FileIds \ blob :
                 /\ calls' = Append(calls, call("createFile", TRUE))
                 /\ uploadedFileId' = id
                 /\ blob' = blob \cup {id}
                 /\ pc' = "extract"
                 /\ UNCHANGED aiError
            \/ /\ calls' = Append(calls, call("createFile", FALSE))
               /\ IF variant = "part_001"
                  THEN aiError' = "stage" /\ pc' = "catch"
                  ELSE pc' = "extract" /\ UNCHANGED aiError
               /\ UNCHANGED <<uploadedFileId, blob>>
    /\ UNCHANGED <<text, cleaned, inv>>
    /\ UNCHANGED <<variant, apiKey, req, talent, careerPath, cvText, modelReply, analysis,
                   usedFallback, responses,
                   unexpectedError>>

\* an extraction whose threshold also rejects a text of exactly 50 characters
Extract_ThresholdOffByOne ==
    /\ pc = "extract"
    /\ \/ /\ calls' = Append(calls, extractionCall(FALSE))
          /\ aiError' = "extraction"
          /\ pc' = "catch"
          /\ UNCHANGED cvText
       \/ \E n \in TextLengths :
            /\ calls' = Append(calls, extractionCall(TRUE))
            /\ cvText' = n
            /\ IF n <= MinTextLength
               THEN aiError' = "short" /\ pc' = "catch"
               ELSE pc' = "analyze" /\ UNCHANGED aiError
    /\ UNCHANGED <<text, cleaned, inv>>
    /\ UNCHANGED <<variant, apiKey, req, talent, careerPath, uploadedFileId, blob,
                   modelReply, analysis, usedFallback, responses,
                   unexpectedError>>

\* an extraction that is tried once more after the model call has thrown
Extract_RetryOnce ==
    /\ pc = "extract"
    /\ \/ /\ calls' = Append(calls, extractionCall(FALSE))
          /\ IF \E i \in DOMAIN calls : calls[i].op = "generateContent(file)"
             THEN aiError' = "extraction" /\ pc' = "catch"
             ELSE pc' = "extract" /\ UNCHANGED aiError
          /\ UNCHANGED cvText
       \/ \E n \in TextLengths :
            /\ calls' = Append(calls, extractionCall(TRUE))
            /\ cvText' = n
            /\ IF n < MinTextLength
               THEN aiError' = "short" /\ pc' = "catch"
               ELSE pc' = "analyze" /\ UNCHANGED aiError
    /\ UNCHANGED <<text, cleaned, inv>>
    /\ UNCHANGED <<variant, apiKey, req, talent, careerPath, uploadedFileId, blob,
                   modelReply, analysis, usedFallback, responses,
                   unexpectedError>>

\* extractTextFromCV: the model call throws, or returns text of some trimmed
\* length; fewer than 50 characters is a failure (thrown by extractTextFromCV
\* in main.js and part_000, by the handler in part_001)
Extract ==
    /\ pc = "extract"
    /\ \/ /\ calls' = Append(calls, extractionCall(FALSE))
          /\ aiError' = "extraction"
          /\ pc' = "catch"
          /\ UNCHANGED cvText
       \/ \E n \in TextLengths :
            /\ calls' = Append(calls, extractionCall(TRUE))
            /\ cvText' = n
            /\ IF n < MinTextLength
               THEN aiError' = "short" /\ pc' = "catch"
               ELSE pc' = "analyze" /\ UNCHANGED aiError
    /\ UNCHANGED <<text, cleaned, inv>>
    /\ UNCHANGED <<variant, apiKey, req, talent, careerPath, uploadedFileId, blob,
                   modelReply, analysis, usedFallback, responses,
                   unexpectedError>>

\* analyzeCVContent: the model call throws, its text cannot be cleaned or
\* parsed, or it parses to a reply that is then validated and corrected
Analyze ==
    /\ pc = "analyze"
    /\ \/ /\ calls' = Append(calls, analysisCall(FALSE))
          /\ aiError' = "analysis"
          /\ pc' = "catch"
          /\ UNCHANGED <<modelReply, analysis>>
       \/ /\ calls' = Append(calls, analysisCall(TRUE))
          /\ aiError' = "malformed"
          /\ pc' = "catch"
          /\ UNCHANGED <<modelReply, analysis>>
       \/ \E parsed \in ModelReplies :
            LET result == validateAnalysis(variant, parsed)
            IN /\ calls' = Append(calls, analysisCall(TRUE))
               /\ modelReply' = parsed
               /\ IF result.ok
                  THEN /\ analysis' = result.analysis
                       /\ pc' = "finally"
                       /\ UNCHANGED aiError
                  ELSE /\ aiError' = "missing field"
                       /\ pc' = "catch"
                       /\ UNCHANGED analysis
    /\ UNCHANGED <<text, cleaned, inv>>
    /\ UNCHANGED <<variant, apiKey, req, talent, careerPath, uploadedFileId, blob, cvText,
                   usedFallback, responses,
                   unexpectedError>>

\* a fallback builder without optional chaining: it throws on a profile that
\* has no skills list
Fallback_ThrowsWithoutSkills ==
    /\ pc = "catch"
    /\ IF "skills" \in DOMAIN talent
       THEN /\ analysis' = generateFallbackAnalysis(variant, talent, careerPath)
            /\ usedFallback' = TRUE
            /\ pc' = "finally"
            /\ UNCHANGED unexpectedError
       ELSE /\ pc' = "outerCatch"
            /\ unexpectedError' = "TypeError"
            /\ UNCHANGED <<analysis, usedFallback>>
    /\ UNCHANGED <<text, cleaned, inv>>
    /\ UNCHANGED <<variant, apiKey, req, talent, careerPath, uploadedFileId, blob, calls,
                   cvText, modelReply, aiError, responses>>

\* the fallback is built but usedFallback is left false
Fallback_FlagNotSet ==
    /\ pc = "catch"
    /\ analysis' = generateFallbackAnalysis(variant, talent, careerPath)
    /\ pc' = "finally"
    /\ UNCHANGED <<text, cleaned, inv>>
    /\ UNCHANGED <<variant, apiKey, req, talent, careerPath, uploadedFileId, blob, calls,
                   cvText, modelReply, aiError, usedFallback, unexpectedError, responses>>

\* catch (analysisError): the fallback report
Fallback ==
    /\ pc = "catch"
    /\ analysis' = generateFallbackAnalysis(variant, talent, careerPath)
    /\ usedFallback' = TRUE
    /\ pc' = "finally"
    /\ UNCHANGED <<text, cleaned, inv>>
    /\ UNCHANGED <<variant, apiKey, req, talent, careerPath, uploadedFileId, blob, calls,
                   cvText, modelReply, aiError, responses,
                   unexpectedError>>

\* storage.deleteFile(uploadedFileId) inside its own try: it deletes the file
\* or throws (it can only throw when the file is gone already), and a throw is
\* only logged.  uploadedFileId is not reset.
deleteFile(next) ==
    /\ \E ok \in (IF uploadedFileId \in blob THEN BOOLEAN ELSE {FALSE}) :
         /\ calls' = Append(calls, call("deleteFile", ok))
         /\ blob' = IF ok THEN blob \ {uploadedFileId} ELSE blob
    /\ pc' = next

\* a finally block whose failed release escapes to the outer catch
Finally_ReleaseFailureEscapes ==
    /\ pc = "finally"
    /\ IF uploadedFileId # NoId
       THEN \E ok \in (IF uploadedFileId \in blob THEN BOOLEAN ELSE {FALSE}) :
                /\ calls' = Append(calls, call("deleteFile", ok))
                /\ blob' = IF ok THEN blob \ {uploadedFileId} ELSE blob
                /\ pc' = IF ok THEN "respond" ELSE "outerCatch"
       ELSE pc' = "respond" /\ UNCHANGED <<blob, calls>>
    /\ UNCHANGED <<text, cleaned, inv>>
    /\ UNCHANGED <<variant, apiKey, req, talent, careerPath, uploadedFileId, cvText,
                   modelReply, aiError, analysis, usedFallback, responses,
                   unexpectedError>>

\* a finally block that does not release the staged file
Finally_NoRelease ==
    /\ pc = "finally"
    /\ pc' = "respond"
    /\ UNCHANGED <<text, cleaned, inv>>
    /\ UNCHANGED <<variant, apiKey, req, talent, careerPath, uploadedFileId, blob, calls,
                   cvText, modelReply, aiError, analysis, usedFallback, unexpectedError,
                   responses>>

\* finally { if (uploadedFileId) ... }
Finally ==
    /\ pc = "finally"
    /\ IF uploadedFileId # NoId
       THEN deleteFile("respond")
       ELSE pc' = "respond" /\ UNCHANGED <<blob, calls>>
    /\ UNCHANGED <<text, cleaned, inv>>
    /\ UNCHANGED <<variant, apiKey, req, talent, careerPath, uploadedFileId, cvText,
                   modelReply, aiError, analysis, usedFallback, responses,
                   unexpectedError>>

\* the success envelope is assembled and emitted; res.json serialises the whole
\* report and may throw, which the outer catch receives
Respond ==
    /\ pc = "respond"
    /\ \/ /\ responses' = Append(responses, successResponse)
          /\ pc' = "done"
          /\ UNCHANGED unexpectedError
       \/ /\ pc' = "outerCatch"
          /\ unexpectedError' = "res.json"
          /\ UNCHANGED responses
    /\ UNCHANGED <<text, cleaned, inv>>
    /\ UNCHANGED <<variant, apiKey, req, talent, careerPath, uploadedFileId, blob, calls,
                   cvText, modelReply, aiError, analysis, usedFallback>>

\* an outer catch that cleans up but emits nothing
OuterCatch_Silent ==
    /\ pc = "outerCatch"
    /\ IF uploadedFileId # NoId
       THEN deleteFile("done")
       ELSE pc' = "done" /\ UNCHANGED <<blob, calls>>
    /\ UNCHANGED <<text, cleaned, inv>>
    /\ UNCHANGED <<variant, apiKey, req, talent, careerPath, uploadedFileId, cvText,
                   modelReply, aiError, analysis, usedFallback, responses,
                   unexpectedError>>

\* catch (unexpectedError): cleanup if uploadedFileId is set, then the 500
OuterCatch ==
    /\ pc = "outerCatch"
    /\ IF uploadedFileId # NoId
       THEN deleteFile("done")
       ELSE pc' = "done" /\ UNCHANGED <<blob, calls>>
    /\ responses' = Append(responses, internalError)
    /\ UNCHANGED <<text, cleaned, inv>>
    /\ UNCHANGED <<variant, apiKey, req, talent, careerPath, uploadedFileId, cvText,
                   modelReply, aiError, analysis, usedFallback,
                   unexpectedError>>

Next ==
    \/ Validate
    \/ FetchTalent
    \/ FetchCareer
    \/ Stage
    \/ Extract
    \/ Analyze
    \/ Fallback
    \/ Finally
    \/ Respond
    \/ OuterCatch

Spec == Init /\ [][Next]_vars

\* every await of the handler returns or throws, so the handler always takes
\* its next step
FairSpec == Spec /\ WF_vars(Next)

-----------------------------------------------------------------------------
(* extractAndCleanJSON called on its own, on every text of a bounded set *)

MaxFragments == 3       \* most fragments a text is put together from

\* what the texts are put together from: fence markers, braces, blanks, prose
Fragments == {fenceJson, fence, <<"{">>, <<"}">>, <<" ">>, <<"\n">>, <<"x">>}

RECURSIVE Concatenations(_)
Concatenations(n) ==
    IF n = 0 THEN {<<>>}
    ELSE LET shorter == Concatenations(n - 1)
         IN shorter \cup {f \o t : f \in Fragments, t \in shorter}

\* replies as the prompt asks for them and as models decorate them
SampleTexts ==
    { <<"{", "\"", "a", "\"", ":", "1", "}">>,
      fenceJson \o <<"\n", "{", "\"", "a", "\"", ":", "1", "}", "\n">> \o fence,
      <<"x", " ", "{", "a", ":", " ", "'", "x", "'", ",", "\n", "}", " ", "x">>,
      <<"{", "\"", "a", "\"", ":", "[", "1", ",", "]", ",", ",", "}">> }

MaxRepairChars == 5     \* longest text made of the characters the repairs look for

\* the characters the repairs look for, and a letter
RepairChars == {",", ":", "'", "a", " ", "{", "}"}

RECURSIVE Strings(_)
Strings(n) ==
    IF n = 0 THEN {<<>>}
    ELSE LET shorter == Strings(n - 1)
         IN shorter \cup {<<c>> \o t : c \in RepairChars, t \in shorter}

\* minimal valid replies
MinimalJsons ==
    { <<"{", "\"", "a", "\"", ":", "1", "}">>,
      <<"{", "\"", "a", "\"", ":", "\"", "x", "\"", "}">>,
      <<"{", "\"", "a", "\"", ":", "[", "1", ",", "2", "]", "}">> }

\* what a model writes before and after its reply
Prose ==
    { <<>>,
      <<"x", " ">>,
      <<" ", "x", ":", " ", "a", ",", " ", "b", "\n">>,
      <<"x", " ", "{", "x", "}", " ">>,
      <<" ", "x", "}">> }

Openers == {<<>>, fence, fenceJson \o <<"\n">>, fence \o <<"\n">>}
Closers == {<<>>, fence, <<"\n">> \o fence}

\* a reply with prose around it and fence markers, or none, around the reply
Decorated ==
    {p \o o \o j \o c \o q :
        p \in Prose, o \in Openers, j \in MinimalJsons, c \in Closers, q \in Prose}

\* valid JSON objects: string values holding what the repairs look for,
\* whitespace between tokens, nested values
ValidJsons ==
    MinimalJsons \cup
    { <<"{", "}">>,
      <<"{", " ", "\"", "a", "\"", " ", ":", "\n", "1", " ", "}">>,
      <<"{", "\"", "a", "\"", ":", "{", "\"", "b", "\"", ":", "[", "]", "}", "}">>,
      <<"{", "\"", "a", "\"", ":", "\"", "x", " ", " ", "x", "\"", "}">>,
      <<"{", "\"", "a", "\"", ":", "\"", "x", ",", " ", "b", ":", "\"", "}">>,
      <<"{", "\"", "a", "\"", ":", "\"", "x", ",", "]", "\"", "}">>,
      <<"{", "\"", "a", "\"", ":", "\"", ":", "'", "x", "'", "\"", "}">>,
      <<"{", "\"", "a", "\"", ":", "\"", "x", "}", "\"", "}">> }

\* result.response.text(): a string, or not one
ModelTexts ==
    {Str(t) : t \in Concatenations(MaxFragments) \cup Strings(MaxRepairChars)
                       \cup SampleTexts \cup Decorated \cup ValidJsons}
    \cup {Undefined, Num}

SanitizeInit ==
    /\ text \in ModelTexts
    /\ cleaned = NotCalled
    /\ variant = "main"
    /\ apiKey = TRUE
    /\ req = [kind |-> "undefined"]
    /\ pc = "sanitize"
    /\ talent = Null
    /\ careerPath = Null
    /\ uploadedFileId = NoId
    /\ blob = {}
    /\ calls = <<>>
    /\ cvText = -1
    /\ modelReply = Null
    /\ aiError = "none"
    /\ analysis = Null
    /\ usedFallback = FALSE
    /\ unexpectedError = "none"
    /\ responses = <<>>
    /\ inv = <<>>

\* const cleanedJson = extractAndCleanJSON(responseText)
Clean ==
    /\ pc = "sanitize"
    /\ cleaned' = extractAndCleanJSON(text)
    /\ pc' = IF cleaned'.ok THEN "parse" ELSE "thrown"
    /\ UNCHANGED <<variant, apiKey, req, talent, careerPath, uploadedFileId, blob,
                   calls, cvText, modelReply, aiError, analysis, usedFallback,
                   unexpectedError, responses, text, inv>>

\* const analysis = JSON.parse(cleanedJson): [ok, value], ok false for a
\* SyntaxError
Parse ==
    /\ pc = "parse"
    /\ analysis' = JSONparse(cleaned.value)
    /\ pc' = IF analysis'.ok THEN "parsed" ELSE "thrown"
    /\ UNCHANGED <<variant, apiKey, req, talent, careerPath, uploadedFileId, blob,
                   calls, cvText, modelReply, aiError, usedFallback,
                   unexpectedError, responses, text, cleaned, inv>>

SanitizeNext == Clean \/ Parse

SanitizeSpec == SanitizeInit /\ [][SanitizeNext]_vars

-----------------------------------------------------------------------------
(* Two invocations of the handler in flight against the same stores.
   The clients and config are module-level and never written; uploadedFileId,
   talent, careerPath, analysis and usedFallback are locals of the handler,
   one set per invocation.  An invocation yields at every await. *)

\* the two invocations in flight
Invocations == {"first", "second"}

NullRef == "null"

\* req.body.talentId of the invocations
PairTalentIds == {"talent A", "talent B"}

\* ID.unique(): an id the store has not issued before; each invocation asks
\* for one at most
UniqueIds == {"file A", "file B"}

\* what generateContent can answer the analysis prompt with
PairReports == {"report A", "report B"}

\* talentQuery.documents[0] of the query Query.equal('talentId', talentId)
profileOf(talentId) == "profile of " \o talentId

\* the document databases.getDocument returns for talent.selectedPath
pathOf(talentId) == "path of " \o talentId

\* generateFallbackAnalysis(talent, careerPath): a function of its arguments
pairFallback(t, c) == "fallback for " \o t \o " and " \o c

\* const response = { success: true, statusCode: 200, analysis, metadata }
pairSuccess(l) ==
    [success |-> TRUE, statusCode |-> 200, analysis |-> l.analysis,
     talent |-> l.talent, careerPath |-> l.careerPath,
     usedFallback |-> l.usedFallback]

\* res.json({ success: false, error, statusCode }, statusCode)
pairFailure(code) ==
    [success |-> FALSE, statusCode |-> code, analysis |-> NullRef,
     talent |-> NullRef, careerPath |-> NullRef, usedFallback |-> FALSE]

\* the locals of an invocation at entry: let uploadedFileId = null,
\* let talent, let careerPath = null, let analysis, let usedFallback = false
entry(talentId) ==
    [pc |-> "fetchTalent", talentId |-> talentId, talent |-> NullRef,
     careerPath |-> NullRef, uploadedFileId |-> NullRef, analysis |-> NullRef,
     usedFallback |-> FALSE, response |-> pairFailure(0), received |-> <<>>]

\* what a collaborator answered an invocation
answer(op, result) == [op |-> op, result |-> result]

\* ids createFile has returned to any invocation
Issued ==
    UNION {{inv[j].received[k].result : k \in DOMAIN inv[j].received} :
              j \in Invocations} \cap UniqueIds

PairInit ==
    /\ inv \in [Invocations -> {entry(t) : t \in PairTalentIds}]
    /\ blob = {}
    /\ text = Undefined
    /\ cleaned = NotCalled
    /\ variant = "main"
    /\ apiKey = TRUE
    /\ req = [kind |-> "undefined"]
    /\ pc = "pair"
    /\ talent = Null
    /\ careerPath = Null
    /\ uploadedFileId = NoId
    /\ calls = <<>>
    /\ cvText = -1
    /\ modelReply = Null
    /\ aiError = "none"
    /\ analysis = Null
    /\ usedFallback = FALSE
    /\ unexpectedError = "none"
    /\ responses = <<>>

PairRest ==
    UNCHANGED <<variant, apiKey, req, pc, talent, careerPath, uploadedFileId,
                calls, cvText, modelReply, aiError, analysis, usedFallback,
                unexpectedError, responses, text, cleaned>>

\* invocation i moves to the locals l, having been answered a
step(i, l, a) ==
    inv' = [inv EXCEPT ![i] = [l EXCEPT !.received = Append(@, a)]]

\* await databases.listDocuments(...): 404 when empty, 500 when it throws
PairFetchTalent(i) ==
    /\ inv[i].pc = "fetchTalent"
    /\ \E out \in {"found", "empty", "error"} :
          LET l == inv[i]
          IN step(i,
                  CASE out = "found" ->
                         [l EXCEPT !.talent = profileOf(l.talentId),
                                   !.pc = "fetchCareer"]
                    [] out = "empty" ->
                         [l EXCEPT !.response = pairFailure(404), !.pc = "done"]
                    [] OTHER ->
                         [l EXCEPT !.response = pairFailure(500), !.pc = "done"],
                  answer("listDocuments", out))
    /\ UNCHANGED blob
    /\ PairRest

\* careerPath = await databases.getDocument(...); a failure is logged only
PairFetchCareer(i) ==
    /\ inv[i].pc = "fetchCareer"
    /\ \E out \in {"found", "error"} :
          LET l == inv[i]
          IN step(i,
                  [l EXCEPT !.careerPath = IF out = "found"
                                           THEN pathOf(l.talentId) ELSE NullRef,
                            !.pc = "stage"],
                  answer("getDocument", out))
    /\ UNCHANGED blob
    /\ PairRest

\* const tempFile = await storage.createFile(storageId, ID.unique(), ...);
\* uploadedFileId = tempFile.$id; a failure is logged only
PairStage(i) ==
    /\ inv[i].pc = "stage"
    /\ \/ \E id \in UniqueIds \ Issued :
             /\ step(i, [inv[i] EXCEPT !.uploadedFileId = id, !.pc = "extract"],
                     answer("createFile", id))
             /\ blob' = blob \cup {id}
       \/ /\ step(i, [inv[i] EXCEPT !.pc = "extract"],
                  answer("createFile", "error"))
          /\ UNCHANGED blob
    /\ PairRest

\* the catch block: analysis = generateFallbackAnalysis(talent, careerPath);
\* usedFallback = true
caught(l) ==
    [l EXCEPT !.analysis = pairFallback(l.talent, l.careerPath),
              !.usedFallback = TRUE, !.pc = "finally"]

\* const cvText = await extractTextFromCV(fileBuffer, fileName)
PairExtract(i) ==
    /\ inv[i].pc = "extract"
    /\ \E out \in {"text", "error"} :
          step(i,
               IF out = "text" THEN [inv[i] EXCEPT !.pc = "analyze"]
               ELSE caught(inv[i]),
               answer("extract", out))
    /\ UNCHANGED blob
    /\ PairRest

\* analysis = await analyzeCVContent(cvText, talent, careerPath)
PairAnalyze(i) ==
    /\ inv[i].pc = "analyze"
    /\ \E out \in PairReports \cup {"error"} :
          step(i,
               IF out \in PairReports
               THEN [inv[i] EXCEPT !.analysis = out, !.pc = "finally"]
               ELSE caught(inv[i]),
               answer("analyze", out))
    /\ UNCHANGED blob
    /\ PairRest

\* a finally block that releases whatever handle any invocation holds, as it
\* would with uploadedFileId declared at module level
PairFinally_SharedHandle(i) ==
    /\ inv[i].pc = "finally"
    /\ \E j \in Invocations :
          /\ inv[j].uploadedFileId # NullRef
          /\ step(i, [inv[i] EXCEPT !.pc = "respond"],
                  answer("deleteFile", inv[j].uploadedFileId))
          /\ blob' = blob \ {inv[j].uploadedFileId}
    /\ PairRest

\* finally { if (uploadedFileId) { try { await storage.deleteFile(storageId,
\* uploadedFileId) } catch (deleteError) { error(...) } } }
PairFinally(i) ==
    /\ inv[i].pc = "finally"
    /\ IF inv[i].uploadedFileId # NullRef
       THEN \E ok \in BOOLEAN :
               /\ step(i, [inv[i] EXCEPT !.pc = "respond"],
                       answer("deleteFile", inv[i].uploadedFileId))
               /\ blob' = IF ok THEN blob \ {inv[i].uploadedFileId} ELSE blob
       ELSE /\ inv' = [inv EXCEPT ![i].pc = "respond"]
            /\ UNCHANGED blob
    /\ PairRest

\* return res.json(response)
PairRespond(i) ==
    /\ inv[i].pc = "respond"
    /\ inv' = [inv EXCEPT ![i].response = pairSuccess(inv[i]), ![i].pc = "done"]
    /\ UNCHANGED blob
    /\ PairRest

PairNext ==
    \E i \in Invocations :
       \/ PairFetchTalent(i)
       \/ PairFetchCareer(i)
       \/ PairStage(i)
       \/ PairExtract(i)
       \/ PairAnalyze(i)
       \/ PairFinally(i)
       \/ PairRespond(i)

PairSpec == PairInit /\ [][PairNext]_vars

-----------------------------------------------------------------------------
(* What the claims speak of *)

Done == pc = "done"

\* the body and the HTTP status of the one envelope emitted
Body == responses[1].body

Succeeded == Done /\ Len(responses) = 1 /\ Body.success

Called(op) == {i \in DOMAIN calls : calls[i].op = op}

Staged == \E i \in Called("createFile") : calls[i].ok

\* the configuration check does not stop the request
ConfigPasses == variant = "part_001" \/ apiKey

\* the request is an object whose three fields are non-empty, fileName a string
WellFormed ==
    /\ req.kind = "object"
    /\ Truthy(req.talentId) /\ Truthy(req.fileData) /\ Truthy(req.fileName)
    /\ req.fileName.t = "string"

\* fileName ends, whatever the letter case, in one of the allowed extensions
EndsInAllowed(name) ==
    \E ext \in allowedExtensions :
        /\ Len(name) >= Len(ext)
        /\ toLowerCase(SubSeq(name, Len(name) - Len(ext) + 1, Len(name))) = ext

InRange(x) == 0 <= x /\ x <= 100

-----------------------------------------------------------------------------
(* C1: once the profile is found, a failure in the AI path (staging buffer,
   extraction call, short text, analysis call, malformed reply, missing
   field) is absorbed: unless an exception escapes to the outer catch, the
   handler answers success=true, statusCode 200, usedFallback=true and the
   report of generateFallbackAnalysis(talent, careerPath); usedFallback is
   false exactly when the report is the model's. *)
C1_AIFailureAbsorbed ==
    (Done /\ talent # Null /\ unexpectedError = "none") =>
        /\ Len(responses) = 1
        /\ Body.success /\ Body.statusCode = 200 /\ responses[1].status = 200
        /\ Body.metadata.usedFallback = (aiError # "none")
        /\ Body.analysis =
              IF aiError # "none"
              THEN generateFallbackAnalysis(variant, talent, careerPath)
              ELSE validateAnalysis(variant, modelReply).analysis

C1_Witness ==
    /\ Succeeded
    /\ aiError = "extraction"
    /\ Body.metadata.usedFallback
    /\ Body.analysis.careerPathAlignment.alignmentScore = 0

(* C2: when createFile succeeded, deleteFile is called exactly once before the
   invocation ends, on every exit branch. *)
C2_ReleasedExactlyOnce ==
    (Done /\ Staged) => Cardinality(Called("deleteFile")) = 1

(* C3, as claimed: when the invocation ends no staged file exists in the blob
   store, whatever the release call did. *)
C3_NeverOutlives ==
    Done => blob = {}

(* C3, amended: when the invocation ends, release has been attempted for a
   staged file, and the file still exists only if every deleteFile call
   threw. *)
C3_GoneUnlessReleaseFailed ==
    (Done /\ Staged) =>
        /\ Called("deleteFile") # {}
        /\ (uploadedFileId \in blob) = (\A i \in Called("deleteFile") : ~calls[i].ok)

C3_Witness ==
    /\ Done /\ Staged /\ blob = {}
    /\ \E i \in Called("deleteFile") : calls[i].ok
    /\ aiError = "analysis"

(* C4: in every success response the scores overallScore,
   careerPathAlignment.alignmentScore and marketability.score are present
   and in [0,100], and so is careerStageAlignment.alignmentScore in main.js,
   the variant whose report has that section. *)
C4_ScoresInRange ==
    Succeeded =>
        LET a == Body.analysis
        IN /\ "overallScore" \in DOMAIN a /\ InRange(a.overallScore)
           /\ "careerPathAlignment" \in DOMAIN a
           /\ "alignmentScore" \in DOMAIN a.careerPathAlignment
           /\ InRange(a.careerPathAlignment.alignmentScore)
           /\ "marketability" \in DOMAIN a
           /\ "score" \in DOMAIN a.marketability
           /\ InRange(a.marketability.score)
           /\ variant = "main" =>
                 /\ "careerStageAlignment" \in DOMAIN a
                 /\ "alignmentScore" \in DOMAIN a.careerStageAlignment
                 /\ InRange(a.careerStageAlignment.alignmentScore)

\* the reply has every top-level field and every score
HasEveryField(a) ==
    /\ TopLevelFields \subseteq DOMAIN a
    /\ "alignmentScore" \in DOMAIN a.careerStageAlignment
    /\ "alignmentScore" \in DOMAIN a.careerPathAlignment
    /\ "score" \in DOMAIN a.marketability

\* the scores of such a reply
ScoresOf(a) ==
    <<a.overallScore, a.careerPathAlignment.alignmentScore, a.marketability.score,
      a.careerStageAlignment.alignmentScore>>

\* the scores the variant's report has: the fourth only in main.js
ScoreCount == IF variant = "main" THEN 4 ELSE 3

NearestInRange(x) == IF x > 100 THEN 100 ELSE IF x < 0 THEN 0 ELSE x

(* C5: in main.js and part_000, the variants that correct score ranges: when
   the parsed reply has every required field and some score is out of
   [0,100], analysis does not fail and no fallback is used; every score is
   returned clamped to the nearest bound, an in-range score unchanged. *)
C5_OutOfRangeClamped ==
    (/\ Done /\ unexpectedError = "none"
     /\ variant \in {"main", "part_000"}
     /\ modelReply # Null /\ HasEveryField(modelReply)
     /\ \E i \in 1..ScoreCount : ~InRange(ScoresOf(modelReply)[i])) =>
        /\ Succeeded
        /\ ~Body.metadata.usedFallback
        /\ HasEveryField(Body.analysis)
        /\ \A i \in 1..ScoreCount :
              ScoresOf(Body.analysis)[i] = NearestInRange(ScoresOf(modelReply)[i])

(* C6: every envelope emitted: a 4xx/5xx statusCode comes with success=false,
   an error string and no analysis; success=true comes with statusCode 200,
   an analysis and metadata. *)
C6_Envelope ==
    \A i \in DOMAIN responses :
        LET b == responses[i].body
        IN /\ b.statusCode >= 400 =>
                ~b.success /\ "error" \in DOMAIN b /\ "analysis" \notin DOMAIN b
           /\ b.success =>
                /\ b.statusCode = 200
                /\ "analysis" \in DOMAIN b /\ b.analysis # Null
                /\ "metadata" \in DOMAIN b
           /\ responses[i].status = b.statusCode

C6_Witness ==
    /\ Done /\ unexpectedError = "res.json" /\ analysis # Null
    /\ Body.statusCode = 500

(* C7: when no profile is obtained the invocation fails with no report: 404
   when the store has no such talent, 500 when the read throws; no analysis,
   no fallback, and no call other than the profile read. *)
C7_NoProfileFails ==
    (Done /\ Called("listDocuments") # {} /\ talent = Null) =>
        /\ Len(calls) = 1
        /\ Len(responses) = 1
        /\ ~Body.success
        /\ Body.statusCode = (IF calls[1].ok THEN 404 ELSE 500)
        /\ "analysis" \notin DOMAIN Body
        /\ analysis = Null /\ ~usedFallback

C7_Witness ==
    Done /\ Called("listDocuments") # {} /\ talent = Null /\ Body.statusCode = 404

(* C8: a well-formed request whose fileName does not end, in any letter case,
   in an allowed extension is answered 400 with no external call made; one
   whose fileName does end in an allowed extension is not rejected by the
   file-type check. *)
C8_ExtensionCheck ==
    (Done /\ ConfigPasses /\ WellFormed) =>
        IF EndsInAllowed(req.fileName.s)
        THEN responses # <<failure(400, "Unsupported file type")>>
        ELSE /\ Len(responses) = 1
             /\ ~Body.success /\ Body.statusCode = 400
             /\ calls = <<>>

\* the body is not an object, a field is missing or empty, or fileName or
\* fileData is not a string
ShapeViolation ==
    \/ req.kind # "object"
    \/ /\ req.kind = "object"
       /\ \/ ~Truthy(req.talentId) \/ ~Truthy(req.fileData) \/ ~Truthy(req.fileName)
          \/ req.fileName.t # "string"
          \/ req.fileData.t # "string"

(* C9: every request with a shape or type violation is answered 400 with
   success=false, never 500 and never a success response. *)
C9_ShapeViolation400 ==
    (Done /\ ConfigPasses /\ ShapeViolation) =>
        /\ Len(responses) = 1
        /\ ~Body.success /\ Body.statusCode = 400

(* C10: a request that reaches the size check is answered 400, with no
   external call made, when length * 3 / 4 > 5 MiB, and passes the check
   otherwise, in every handler variant. *)
C10_SizeCheck ==
    (/\ Done /\ ConfigPasses /\ WellFormed
     /\ req.fileData.t = "string"
     /\ fileExtension(req.fileName.s) \in allowedExtensions) =>
        IF req.fileData.len * 3 > 4 * 5 * 1024 * 1024
        THEN /\ responses = <<failure(400, "File size too large")>>
             /\ calls = <<>>
        ELSE responses # <<failure(400, "File size too large")>>

(* C11: a missing model API key is found at the start of the invocation,
   before the body is parsed and before any external call: the one response
   is the 500 configuration error whatever the request, and no call is made,
   in every handler variant. *)
C11_ConfigCheckedFirst ==
    (Done /\ ~apiKey) =>
        /\ responses = <<failure(500, "Server configuration error")>>
        /\ calls = <<>>

\* the career fetch was made and threw
CareerFetchFailed == \E i \in Called("getDocument") : ~calls[i].ok

(* C12: when the profile has a selectedPath and the career fetch throws, the
   invocation goes on with careerPath = null into the AI path; unless an
   exception escapes to the outer catch the response is a success whose
   metadata.careerPath is null, and a fallback report is the one built for
   no target. *)
C12_CareerFetchNonFatal ==
    (Done /\ CareerFetchFailed /\ unexpectedError = "none") =>
        /\ "selectedPath" \in DOMAIN talent
        /\ careerPath = Null
        /\ Called("createFile") # {} \/ aiError = "buffer"
        /\ Len(responses) = 1
        /\ Body.success /\ Body.statusCode = 200
        /\ Body.metadata.careerPath = Null
        /\ usedFallback => Body.analysis = generateFallbackAnalysis(variant, talent, Null)

C12_Witness ==
    /\ Done /\ CareerFetchFailed /\ Succeeded
    /\ usedFallback
    /\ Body.analysis.careerPathAlignment.alignmentScore = 0

\* the envelope as the variables the release never touches determine it: the
\* escaped exception if any, else the report of the path the AI calls took
ResponseWhateverRelease ==
    IF unexpectedError # "none" THEN internalError
    ELSE [successResponse EXCEPT
            !.body.analysis =
                IF aiError # "none"
                THEN generateFallbackAnalysis(variant, talent, careerPath)
                ELSE validateAnalysis(variant, modelReply).analysis,
            !.body.metadata.usedFallback = (aiError # "none")]

(* C13: a failure of the release call never changes the response: in every
   run in which deleteFile was called, whether each call deleted the file or
   threw, the one envelope emitted (success flag, statusCode, analysis,
   usedFallback) is the one determined by the request, the documents and the
   outcome of the AI path alone. *)
C13_ReleaseFailureSilent ==
    (Done /\ Called("deleteFile") # {}) => responses = <<ResponseWhateverRelease>>

C13_Witness ==
    /\ Done /\ Succeeded
    /\ \E i \in Called("deleteFile") : ~calls[i].ok
    /\ ~usedFallback

(* C14: every collaborator call returning or throwing, every invocation
   terminates, and when it has terminated exactly one response envelope has
   been emitted; at no time has more than one been emitted. *)
C14_TerminatesWithOneResponse ==
    /\ [](Len(responses) <= 1)
    /\ [](Done => Len(responses) = 1)
    /\ <>Done

C14_Witness ==
    Done /\ Len(responses) = 1 /\ unexpectedError = "res.json" /\ Staged

\* the fields of the careerPathAlignment section
AlignmentFields ==
    {"alignmentScore", "matchingSkills", "missingSkills", "matchingCertifications",
     "missingCertifications", "relevantExperience", "additionalRequirements"}

(* C15: every report returned with success=true has the top-level field set
   of the fallback report of its variant, whether it came from the model or
   from the fallback builder, and contains careerPathAlignment with all seven
   of its fields, also when there is no career path and when the model's
   reply omitted the section. *)
C15_SameStructure ==
    Succeeded =>
        /\ DOMAIN Body.analysis = DOMAIN generateFallbackAnalysis(variant, talent, careerPath)
        /\ "careerPathAlignment" \in DOMAIN Body.analysis
        /\ AlignmentFields \subseteq DOMAIN Body.analysis.careerPathAlignment

\* the fallback report was built, and is the one held
FallbackBuilt == usedFallback /\ analysis # Null

(* C16: for every profile, the fallback report built with no career path has
   a careerPathAlignment whose alignmentScore is 0 and whose matchingSkills,
   missingSkills, matchingCertifications and missingCertifications are
   present and empty, in every variant of generateFallbackAnalysis. *)
C16_NullTargetAlignment ==
    (FallbackBuilt /\ careerPath = Null) =>
        LET a == analysis.careerPathAlignment
        IN /\ a.alignmentScore = 0
           /\ \A k \in {"matchingSkills", "missingSkills", "matchingCertifications",
                         "missingCertifications"} : k \in DOMAIN a /\ a[k] = <<>>

\* the elements of a list
Elements(seq) == {seq[i] : i \in DOMAIN seq}

\* the elements of an optional list of a document, none when it is absent
Held(doc, key) == IF key \in DOMAIN doc THEN Elements(doc[key]) ELSE {}

(* C17: for every profile and every career path, the fallback report's
   matchingSkills is, as a set, profile.skills intersected with
   requiredSkills, and missingSkills is requiredSkills minus profile.skills;
   likewise for certifications; also when a list is absent or empty. *)
C17_MatchingAndMissing ==
    (FallbackBuilt /\ careerPath # Null) =>
        LET a == analysis.careerPathAlignment
            skills == Held(talent, "skills")
            required == Held(careerPath, "requiredSkills")
            certs == Held(talent, "certifications")
            requiredCerts == Held(careerPath, "requiredCertifications")
        IN /\ Elements(a.matchingSkills) = skills \cap required
           /\ Elements(a.missingSkills) = required \ skills
           /\ Elements(a.matchingCertifications) = certs \cap requiredCerts
           /\ Elements(a.missingCertifications) = requiredCerts \ certs

C17_Witness ==
    /\ Done /\ FallbackBuilt /\ careerPath # Null
    /\ analysis.careerPathAlignment.matchingSkills # <<>>
    /\ analysis.careerPathAlignment.missingSkills # <<>>
    /\ Held(talent, "skills") \ Held(careerPath, "requiredSkills") # {}

\* the top-level fields every variant's fallback report has
FallbackFields ==
    {"overallScore", "strengths", "weaknesses", "profileVsCvGaps", "careerPathAlignment",
     "recommendations", "nextSteps", "marketability"}

(* C18: generateFallbackAnalysis is total: whenever the handler's catch block
   runs, for whatever profile (any careerStage or none; skills and
   certifications absent, empty or populated) and career path or null, the
   step ends with a report and usedFallback set, never with an exception,
   and makes no model, store or blob call. *)
C18_FallbackTotal ==
    [][pc = "catch" =>
          /\ pc' = "finally"
          /\ usedFallback'
          /\ analysis' # Null /\ FallbackFields \subseteq DOMAIN analysis'
          /\ UNCHANGED <<calls, blob, responses, unexpectedError>>]_vars

C18_Witness ==
    /\ Done /\ FallbackBuilt /\ careerPath # Null
    /\ "careerStage" \notin DOMAIN talent
    /\ "skills" \notin DOMAIN talent

\* the mandatory top-level fields of a report
MandatoryFields ==
    {"overallScore", "strengths", "weaknesses", "profileVsCvGaps", "careerPathAlignment",
     "recommendations", "nextSteps", "marketability"}

(* C19: whenever a mandatory top-level field (overallScore, strengths,
   weaknesses, profileVsCvGaps, careerPathAlignment, recommendations,
   nextSteps, marketability) is absent from the parsed model reply, analysis
   fails and the handler uses the fallback. *)
C19_MissingFieldFails ==
    (Done /\ modelReply # Null /\ unexpectedError = "none"
       /\ ~(MandatoryFields \subseteq DOMAIN modelReply)) =>
        /\ aiError = "missing field"
        /\ usedFallback

\* once the fence markers are stripped the text has no '{', no '}', or its
\* first '{' lies after its last '}'
NoBracePair(t) ==
    LET stripped == removeFence(removeFence(t, fenceJson), fence)
        opens == {i \in 1..Len(stripped) : stripped[i] = "{"}
        closes == {i \in 1..Len(stripped) : stripped[i] = "}"}
    IN opens = {} \/ closes = {} \/ \A i \in opens, j \in closes : j < i

(* C20: for every model output that is not a string, or that once the fence
   markers are stripped has no '{', no '}', or its first '{' after its last
   '}', extractAndCleanJSON fails with its own error: an Error whose message
   starts with "Failed to clean JSON: ", never an exception of another type;
   for a string the message names the missing JSON object. *)
C20_MalformedFailsCleanly ==
    (cleaned.called /\ (text.t # "string" \/ NoBracePair(text.s))) =>
        /\ ~cleaned.ok
        /\ cleaned.error.name = "Error"
        /\ cleaned.error.message =
              IF text.t = "string"
              THEN "Failed to clean JSON: No valid JSON object found in response"
              ELSE "Failed to clean JSON: text.replace is not a function"

C20_Witness ==
    /\ cleaned.called /\ ~cleaned.ok
    /\ text.t = "string"
    /\ \E i, j \in 1..Len(text.s) : text.s[i] = "}" /\ text.s[j] = "{" /\ i < j
    /\ startsWith(text.s, fence)

\* the index of the extraction call in calls
ExtractionCalls == Called("generateContent(file)")
AnalysisCalls == Called("generateContent(text)")

(* C23: whenever the extraction model call throws, or returns a text whose
   trimmed length is under 50, extraction fails, no analysis model call is
   issued and the fallback is used; a text of trimmed length 50 or more is
   handed to the analysis call as it was returned. *)
C23_ExtractionThreshold ==
    (Done /\ ExtractionCalls # {}) =>
        IF (\E i \in ExtractionCalls : ~calls[i].ok) \/ cvText < 50
        THEN /\ AnalysisCalls = {}
             /\ usedFallback
             /\ aiError \in {"extraction", "short"}
        ELSE /\ AnalysisCalls # {}
             /\ \A i \in AnalysisCalls : calls[i].cvText = cvText

C23_Witness ==
    Done /\ cvText = 50 /\ AnalysisCalls # {} /\ ~usedFallback

\* the place of each external call in the one pass; the release comes last
Rank(op) ==
    CASE op = "listDocuments" -> 1
      [] op = "getDocument" -> 2
      [] op = "createFile" -> 3
      [] op = "generateContent(file)" -> 4
      [] op = "generateContent(text)" -> 5
      [] op = "deleteFile" -> 6

ModelCalls == ExtractionCalls \cup AnalysisCalls

(* C24: one pass, in order, no retry: at every moment the profile fetch, the
   career fetch, the staging, the extraction call and the analysis call have
   each been issued at most once and in that order; the analysis call is
   issued only after the extraction call returned; a model call that failed
   is followed by no model call. *)
C24_SinglePass ==
    /\ \A i, j \in DOMAIN calls :
          (i < j /\ calls[i].op # "deleteFile") => Rank(calls[i].op) < Rank(calls[j].op)
    /\ \A j \in AnalysisCalls : \E i \in ExtractionCalls : i < j /\ calls[i].ok
    /\ \A i, j \in ModelCalls : (i < j) => calls[i].ok

C24_Witness ==
    /\ Done
    /\ Called("getDocument") # {} /\ Called("createFile") # {}
    /\ \E i \in AnalysisCalls : ~calls[i].ok

(* C26: in part_001, whose required-field list holds the misspelled
   'profileVsCvGPs', a model reply that carries every correctly named field
   (overallScore not 0) passes validation and is returned as the model's
   report, with usedFallback=false. *)
C26_MisspelledCheckDisabled ==
    (/\ Done /\ variant = "part_001"
     /\ modelReply # Null
     /\ MandatoryFields \subseteq DOMAIN modelReply
     /\ "profileVsCvGPs" \notin DOMAIN modelReply
     /\ modelReply.overallScore # 0) =>
        /\ aiError = "none"
        /\ ~usedFallback
        /\ analysis = modelReply

(* C28: a parsed reply in which every required top-level field of the variant
   is present is accepted whatever the values, an overallScore of exactly 0
   included, and is returned with usedFallback=false. *)
C28_PresenceOnly ==
    (/\ Done
     /\ modelReply # Null
     /\ requiredFields(variant) \subseteq DOMAIN modelReply) =>
        /\ aiError = "none"
        /\ ~usedFallback

\* createFile was called and threw
StageFailed == \E i \in Called("createFile") : ~calls[i].ok

(* C29: a failed staging is not fatal and does not by itself bring the
   fallback: the extraction call is still made, the report is the model's
   when the model's reply is a valid one, and deleteFile is never called in
   that invocation. *)
C29_StageFailureNonFatal ==
    (Done /\ StageFailed) =>
        /\ ExtractionCalls # {}
        /\ aiError # "stage"
        /\ Called("deleteFile") = {}
        /\ (modelReply # Null /\ validateAnalysis(variant, modelReply).ok) => ~usedFallback

\* the media types of the supported file kinds
SpecificTypes ==
    {media("application", <<"pdf">>), media("image", <<"jpeg">>), media("image", <<"png">>),
     media("application", <<"msword">>),
     media("application", <<"vnd.openxmlformats-officedocument.wordprocessingml.document">>)}

(* C30: every extraction call, made only for a file name that passed the
   allow-list, carries a specific supported media type (pdf, jpeg, png,
   msword or docx) and never the generic binary type, in every variant. *)
C30_SpecificMediaType ==
    \A i \in ExtractionCalls : calls[i].mimeType \in SpecificTypes

(* C22: each textual repair (trailing separator before a closing brace or
   bracket deleted, bare keys quoted, single-quoted values double-quoted,
   whitespace runs collapsed) is idempotent on every text, and so is the
   chain: applied to its own output it returns that output unchanged. *)
C22_RepairsIdempotent ==
    (cleaned.called /\ text.t = "string") =>
        LET t == text.s
            collapse(x) == collapseSpaces(newlinesToSpaces(x))
        IN /\ removeTrailingCommas(removeTrailingCommas(t)) = removeTrailingCommas(t)
           /\ quoteKeys(quoteKeys(t)) = quoteKeys(t)
           /\ singleToDoubleQuotes(singleToDoubleQuotes(t)) = singleToDoubleQuotes(t)
           /\ collapse(collapse(t)) = collapse(t)
           /\ repairs(repairs(t)) = repairs(t)
           /\ cleaned.ok => repairs(cleaned.value) = cleaned.value

\* extractAndCleanJSON and JSON.parse have run, or one of them has thrown
Sanitized == pc \in {"parsed", "thrown"}

\* what the two of them gave: [ok, value]
Outcome == IF pc = "parsed" THEN analysis ELSE [ok |-> FALSE, value |-> <<>>]

HasBrace(s) == \E i \in 1..Len(s) : s[i] \in {"{", "}"}

(* C21 as stated: for every minimal valid reply J, every prose prefix P and
   suffix S, with or without fence markers around J, cleaning and parsing
   P + fence + J + fence + S gives the value that cleaning and parsing J
   gives. *)
C21_DecorationInvariant ==
    (Sanitized /\ text.t = "string") =>
        \A p \in Prose, o \in Openers, j \in MinimalJsons, c \in Closers, q \in Prose :
            (text.s = p \o o \o j \o c \o q) => Outcome = sanitizeAndParse(Str(j))

(* C21 amended: the same, for prose that holds no brace: the reply is taken
   from the first '{' to the last '}' of the whole text. *)
C21_BraceFreeDecoration ==
    (Sanitized /\ text.t = "string") =>
        \A p \in Prose, o \in Openers, j \in MinimalJsons, c \in Closers, q \in Prose :
            (text.s = p \o o \o j \o c \o q /\ ~HasBrace(p) /\ ~HasBrace(q)) =>
                /\ Outcome.ok
                /\ Outcome = sanitizeAndParse(Str(j))

C21_Witness ==
    /\ pc = "parsed"
    /\ \E p \in Prose, j \in MinimalJsons, q \in Prose :
          /\ Len(p) > 2 /\ Len(q) > 2 /\ ~HasBrace(p) /\ ~HasBrace(q)
          /\ text.s = p \o fenceJson \o <<"\n">> \o j \o <<"\n">> \o fence \o q

(* C27: for every text that is a valid JSON object, cleaning and parsing
   succeeds and gives the value that parsing the text directly gives: the
   repairs change no string value and break no valid text. *)
C27_ValidInputPreserved ==
    (/\ Sanitized /\ text.t = "string"
     /\ JSONparse(text.s).ok
     /\ skipSpaces(text.s)[1] = "{") =>
        /\ pc = "parsed"
        /\ analysis = JSONparse(text.s)

\* what the collaborators answered invocation i when it called op
Got(i, op) ==
    {inv[i].received[k].result :
        k \in {n \in DOMAIN inv[i].received : inv[i].received[n].op = op}}

\* the handles createFile returned to invocation i
Created(i) == Got(i, "createFile") \cap UniqueIds

\* the response invocation i owes, from its own request and its own answers
Owed(i) ==
    LET t == profileOf(inv[i].talentId)
        c == IF "found" \in Got(i, "getDocument")
             THEN pathOf(inv[i].talentId) ELSE NullRef
        byModel == Got(i, "analyze") \cap PairReports
    IN IF "found" \notin Got(i, "listDocuments")
       THEN pairFailure(IF "empty" \in Got(i, "listDocuments") THEN 404 ELSE 500)
       ELSE [success |-> TRUE, statusCode |-> 200,
             analysis |-> IF byModel # {}
                          THEN CHOOSE r \in byModel : TRUE
                          ELSE pairFallback(t, c),
             talent |-> t, careerPath |-> c,
             usedFallback |-> byModel = {}]

\* C25: when invocations interleave at their external calls, each stages and
\* releases only its own file handle: the handle it holds is one createFile
\* returned to it and to no other invocation, every deleteFile it issues names
\* that handle, its staged file stays in the store until its own cleanup, and
\* the response it returns is determined by its own request and the answers
\* it received.
C25_InvocationsIsolated ==
    pc = "pair" =>
       \A i \in Invocations :
          /\ inv[i].uploadedFileId \in Created(i) \cup {NullRef}
          /\ Got(i, "deleteFile") \subseteq Created(i)
          /\ \A j \in Invocations \ {i} :
                /\ Created(i) \cap Created(j) = {}
                /\ Got(j, "deleteFile") \cap Created(i) = {}
          /\ (inv[i].pc \in {"extract", "analyze", "finally"}
                 /\ inv[i].uploadedFileId # NullRef)
                => inv[i].uploadedFileId \in blob
          /\ inv[i].pc = "done" => inv[i].response = Owed(i)

\* one invocation has released its staged file and returned a model report
\* while another, for the same talent, still holds its own staged file and
\* goes on to the fallback
C25_Witness ==
    /\ pc = "pair"
    /\ \E i, j \in Invocations :
          /\ i # j
          /\ inv[i].talentId = inv[j].talentId
          /\ inv[i].pc = "done"
          /\ inv[i].response.success
          /\ ~inv[i].response.usedFallback
          /\ Created(i) # {}
          /\ Created(i) \cap blob = {}
          /\ inv[j].pc = "finally"
          /\ inv[j].usedFallback
          /\ inv[j].uploadedFileId \in blob

====
